---- MODULE Spec2Model ----
(***************************************************************************)
(* Model of arduino-air-quality-monitor.ino (ESP8266): the loop() that     *)
(* services HTTP clients, samples the DHT22 and MQ-135 every               *)
(* SENSOR_INTERVAL ms and repaints the OLED every OLED_UPDATE_INTERVAL ms, *)
(* with the two HTTP handlers and computeGasIndex.                         *)
(*                                                                         *)
(* unsigned long values (millis(), lastSensorMillis, lastOLEDMillis) are   *)
(* 32 bits wide; they are kept as [hi, lo] pairs of 16-bit halves so that  *)
(* their arithmetic is exactly arithmetic modulo 2^32.  float values are   *)
(* IEEE-754 single precision, kept as sign, 24-bit mantissa and exponent.  *)
(***************************************************************************)
EXTENDS Integers, Sequences, FiniteSets, TLC

\* ======================= program constants ==============================
SENSOR_INTERVAL == 2000
OLED_UPDATE_INTERVAL == 1000
ADC_MAX == 1023
SCREEN_WIDTH == 128
ap_channel == 6
ap_ssid_prefix == "AQMonitor_"
ap_password == "change_me01"

\* ======================= bounds of the model ============================
\* loop() iterations explored after setup()
MaxIter == 3
\* HTTP requests that can wait for handleClient at one time
MaxPending == 1
\* startAP is explored for ap_password of 0 .. MaxPassLen characters (and NULL)
MaxPassLen == 66
\* computeGasIndex is explored for raw in -RawBelow .. ADC_MAX + RawAbove
RawBelow == 40
RawAbove == 1100

\* ======================= unsigned long (32 bit) =========================
Half == 2^16

U32(n) == [hi |-> (n \div Half) % Half, lo |-> n % Half]

\* a + b modulo 2^32
Add32(a, b) ==
  LET l == a.lo + b.lo
  IN  [hi |-> (a.hi + b.hi + (l \div Half)) % Half, lo |-> l % Half]

\* a - b modulo 2^32 (unsigned subtraction wraps)
Sub32(a, b) ==
  LET l == a.lo - b.lo
      borrow == IF l < 0 THEN 1 ELSE 0
  IN  [hi |-> (a.hi - b.hi - borrow) % Half, lo |-> l % Half]

\* a >= n for an unsigned a and a constant 0 <= n < 2^16
Ge32(a, n) == a.hi > 0 \/ a.lo >= n

\* elapsed real time is not truncated: the same halves, hi unbounded
AddWide(a, b) ==
  LET l == a.lo + b.lo
  IN  [hi |-> a.hi + b.hi + (l \div Half), lo |-> l % Half]

GeWide(a, n) == a.hi > 0 \/ a.lo >= n

Zero32 == [hi |-> 0, lo |-> 0]

\* a <= b, both below 2^32
Le32(a, b) == a.hi < b.hi \/ (a.hi = b.hi /\ a.lo <= b.lo)

\* ======================= float (IEEE-754 binary32) ======================
\* A number is (-1)^s * m * 2^e with m = 0 or 2^23 <= m < 2^24.
NAN == [k |-> "nan", s |-> 0, m |-> 0, e |-> 0]
FZero == [k |-> "num", s |-> 0, m |-> 0, e |-> 0]

isnan(x) == x.k = "nan"

Two23 == 2^23
Two24 == 2^24

\* round to nearest, ties to even: mantissa m with the discarded part
\* compared to one half (cmp = -1 below, 0 tie, 1 above)
RoundEven(m, cmp) ==
  IF cmp > 0 \/ (cmp = 0 /\ m % 2 = 1) THEN m + 1 ELSE m

Normal(s, m, e) ==
  IF m = Two24 THEN [k |-> "num", s |-> s, m |-> Two23, e |-> e + 1]
  ELSE [k |-> "num", s |-> s, m |-> m, e |-> e]

\* the float nearest to (-1)^s * (m + r/q) * 2^e, by binary long division:
\* one more quotient bit per step until the mantissa has 24 bits
RECURSIVE DivBits(_, _, _, _, _)
DivBits(s, m, r, q, e) ==
  IF m >= Two23
  THEN Normal(s, RoundEven(m, IF 2 * r > q THEN 1 ELSE IF 2 * r = q THEN 0 ELSE -1), e)
  ELSE DivBits(s, 2 * m + ((2 * r) \div q), (2 * r) % q, q, e - 1)

\* float division p / q of an int p (|p| < 2^23) by a positive int q
FDivInt(p, q) ==
  LET a == IF p < 0 THEN 0 - p ELSE p
  IN  IF a = 0 THEN FZero
      ELSE DivBits(IF p < 0 THEN 1 ELSE 0, a \div q, a % q, q, 0)

\* x * 300.0: the product is exact in double (24 + 9 bits), then narrowed
\* to float on assignment.  300 = 75 * 2^2 and m * 75 < 2^31.
FMul300(x) ==
  IF x.m = 0 THEN x
  ELSE LET p == x.m * 75
           sh == IF p >= 2^30 THEN 7 ELSE 6
           d == 2^sh
           rem == p % d
       IN  Normal(x.s,
                  RoundEven(p \div d, IF 2 * rem > d THEN 1
                                      ELSE IF 2 * rem = d THEN 0 ELSE -1),
                  x.e + 2 + sh)

\* x < y for numbers (neither is NaN)
FLt(x, y) ==
  LET neg(v) == v.s = 1 /\ v.m > 0
      magLt(a, b) == \/ a.m = 0 /\ b.m > 0
                     \/ a.m > 0 /\ b.m > 0 /\ (a.e < b.e \/ (a.e = b.e /\ a.m < b.m))
  IN  IF neg(x) /\ ~neg(y) THEN TRUE
      ELSE IF ~neg(x) /\ neg(y) THEN FALSE
      ELSE IF neg(x) THEN magLt(y, x)
      ELSE magLt(x, y)

FLe(x, y) == ~FLt(y, x)

F300 == FDivInt(300, 1)
F500 == FDivInt(500, 1)

\* ======================= Index Calculator ===============================
\* variant: the clip of lines 194-195 left out
computeGasIndex_NoClip(raw) == FMul300(FDivInt(raw, ADC_MAX))

\* variant: the direction inverted (inverted = 1.0 - normalized)
computeGasIndex_Inverted(raw) ==
  LET idx0 == FMul300(FDivInt(ADC_MAX - raw, ADC_MAX))
      idx1 == IF FLt(idx0, FZero) THEN FZero ELSE idx0
  IN  IF FLt(F500, idx1) THEN F500 ELSE idx1

\* float computeGasIndex(int raw)
computeGasIndex(raw) ==
  LET normalized == FDivInt(raw, ADC_MAX)
      inverted == normalized
      idx0 == FMul300(inverted)
      idx1 == IF FLt(idx0, FZero) THEN FZero ELSE idx0
  IN  IF FLt(F500, idx1) THEN F500 ELSE idx1

\* ======================= String(float, decimalPlaces) ===================
\* the decimal digits of |x| rounded half up to `places` places, as the
\* integer |x| * 10^places rounded (places <= 2, so m * 10^places < 2^31)
Scaled(x, places) ==
  LET X == x.m * (10^places)
  IN  IF x.e >= 0 THEN X * (2^(x.e))
      ELSE LET kk == 0 - x.e
           IN  IF kk > 30 THEN (IF kk = 31 /\ X >= 2^30 THEN 1 ELSE 0)
               ELSE (X \div (2^kk)) + (IF 2 * (X % (2^kk)) >= 2^kk THEN 1 ELSE 0)

Pad(n, places) ==
  IF places = 2 /\ n < 10 THEN "0" \o ToString(n) ELSE ToString(n)

\* String(x, places) for a number x
FString(x, places) ==
  LET n == Scaled(x, places)
      p == 10^places
      sign == IF x.s = 1 /\ x.m > 0 THEN "-" ELSE ""
  IN  IF places = 0 THEN sign \o ToString(n)
      ELSE sign \o ToString(n \div p) \o "." \o Pad(n % p, places)


\* printf("%.Nf", x): the exact value rounded to nearest, ties to even
PrintfScaled(x, places) ==
  LET X == x.m * (10^places)
  IN  IF x.e >= 0 THEN X * (2^(x.e))
      ELSE LET kk == 0 - x.e
           IN  IF kk > 30 THEN (IF kk = 31 /\ X > 2^30 THEN 1 ELSE 0)
               ELSE LET q == X \div (2^kk)
                        r2 == 2 * (X % (2^kk))
                    IN  RoundEven(q, IF r2 > 2^kk THEN 1 ELSE IF r2 = 2^kk THEN 0 ELSE -1)

Printf(x, places) ==
  LET n == PrintfScaled(x, places)
      p == 10^places
      sign == IF x.s = 1 THEN "-" ELSE ""
  IN  IF isnan(x) THEN "nan"
      ELSE IF places = 0 THEN sign \o ToString(n)
      ELSE sign \o ToString(n \div p) \o "." \o ToString(n % p)

\* (float)n of an int n and (int)x of a float x (truncation toward zero)
FFromInt(n) == FDivInt(n, 1)

FToInt(x) ==
  LET mag == IF x.e >= 0 THEN x.m * (2^(x.e))
             ELSE IF 0 - x.e > 30 THEN 0 ELSE x.m \div (2^(0 - x.e))
  IN  IF x.s = 1 THEN 0 - mag ELSE mag

\* ======================= inputs =========================================
\* what dht.readTemperature() / dht.readHumidity() can return: NAN on a
\* failed read, otherwise a number (21.5, -3.25; 25.5)
TempReadings == {NAN, FDivInt(43, 2), FDivInt(-13, 4)}
HumReadings == {NAN, FDivInt(51, 2)}
\* what analogRead(MQ_PIN) can return
AnalogReadings == {512, ADC_MAX}
\* ESP.getChipId()
ChipIds == {1715004}
\* a value of the const char* ap_password of line 29: a string, or NULL (the
\* comment of that line offers both)
NULL == [null |-> TRUE, chars |-> ""]
Str(s) == [null |-> FALSE, chars |-> s]
RECURSIVE Chars(_)
Chars(n) == IF n = 0 THEN "" ELSE Chars(n - 1) \o "x"
Passwords == {NULL} \cup {Str(Chars(n)) : n \in 0..MaxPassLen}
\* milliseconds between two consecutive readings of millis() in loop():
\* just below and at the display interval (999 + 1000 and 1000 + 1000 are
\* just below and at the sensor interval), several intervals at once, and
\* one long stall that brings the counter close to its wrap (2^32 - 2500).
\* Every step is below 2^32 - SENSOR_INTERVAL.
BigStep == [hi |-> 65535, lo |-> 63036]
Deltas == {U32(999), U32(1000), U32(4500), BigStep}
Routes == {"/", "/data"}
\* the longest time between two readings of millis() after which the sensor
\* gate still sees the true elapsed time: 2^32 - SENSOR_INTERVAL
MaxGap == Sub32(Zero32, U32(SENSOR_INTERVAL))

\* ======================= state ==========================================
VARIABLES
  pc,                \* where the program is: setup, or a step of loop()
  iter,              \* loop() iterations started
  millis,            \* the millisecond counter, 32 bit
  now,               \* loop(): unsigned long now
  t, h, mq,          \* loop(): the values read in the last sensor tick
  lastSensorMillis, lastOLEDMillis,
  lastTemp, lastHum, lastMQRaw, lastGasIndex,
  displayBegun,      \* what display.begin() returned
  frame,             \* what the last display.display() flushed
  ap,                \* the access point WiFi.softAP() was asked for
  pending,           \* requests waiting for server.handleClient()
  response,          \* what server.send() sent, until the client has read it
  \* history variables (not program state)
  samples,           \* number of Sensor Reader invocations
  sinceSample,       \* real ms from the last sample (or boot) to `now`
  lastGap,           \* real ms between the last sample and the one before
  histTemp, histHum, \* most recent valid reading, NAN if none yet
  sinceOLED,         \* real ms from the last display update (or boot) to `now`
  gapsOK,            \* no two readings of millis() were more than MaxGap apart
  snap,              \* what the readers since the last sensor tick saw
  raw, idx,          \* argument and result of a direct computeGasIndex call
  password           \* the value ap_password was built with

vars == <<pc, iter, millis, now, t, h, mq, lastSensorMillis, lastOLEDMillis,
          lastTemp, lastHum, lastMQRaw, lastGasIndex, displayBegun, frame, ap,
          pending, response, samples, sinceSample, lastGap, histTemp, histHum,
          sinceOLED, gapsOK, snap, raw, idx, password>>

store == <<lastTemp, lastHum, lastMQRaw, lastGasIndex>>
locals == <<t, h, mq>>
history == <<samples, sinceSample, lastGap, histTemp, histHum>>
clock == <<sinceOLED, gapsOK>>
direct == <<raw, idx, password>>

NoFrame == [kind |-> "none", lines |-> <<>>]
\* state: "none" before startAP(), then "started", "refused" (softAP()
\* returned false) or "fault" (the sketch did not get as far as softAP())
NoAP == [state |-> "none", ssid |-> <<>>, secured |-> FALSE, passphrase |-> "",
         channel |-> 0]
NoResponse == [route |-> "", code |-> 0, type |-> "", body |-> <<>>]
\* n: how many readers since the last sensor tick (0, 1, or 2 for more)
NoSnap == [n |-> 0, temperature |-> NAN, humidity |-> NAN, gasRaw |-> 0,
           gasIndex |-> FZero]

\* the globals of lines 51-57 and the objects of lines 46-48, before setup()
Boot ==
  /\ iter = 0
  /\ millis = Zero32 /\ now = Zero32
  /\ t = NAN /\ h = NAN /\ mq = 0
  /\ lastSensorMillis = Zero32 /\ lastOLEDMillis = Zero32
  /\ lastTemp = NAN /\ lastHum = NAN /\ lastMQRaw = 0 /\ lastGasIndex = FZero
  /\ displayBegun = FALSE /\ frame = NoFrame /\ ap = NoAP
  /\ pending = <<>> /\ response = NoResponse
  /\ samples = 0 /\ sinceSample = Zero32 /\ lastGap = Zero32
  /\ histTemp = NAN /\ histHum = NAN
  /\ sinceOLED = Zero32 /\ gapsOK = TRUE
  /\ snap = NoSnap

Init == Boot /\ pc = "setup" /\ raw = 0 /\ idx = NAN /\ password = Str(ap_password)

\* ======================= setup() ========================================
\* Adafruit_GFX::width(): the width the constructor was given (line 47);
\* display.begin() does not change it, whatever it returns (a failed
\* begin() leaves the library without its frame buffer)
display_width == SCREEN_WIDTH

\* strlen(p) of line 207.  strlen(NULL) is undefined: the read of address 0
\* faults on the ESP8266, or it returns some length
strlen(p) ==
  IF p.null
  THEN {[fault |-> TRUE, len |-> 0]} \cup {[fault |-> FALSE, len |-> n] : n \in {0, 8}}
  ELSE {[fault |-> FALSE, len |-> Len(p.chars)]}

\* WiFi.softAP(ssid, passphrase, channel) of lines 208 and 210: the ESP8266
\* core starts nothing and returns false for a passphrase shorter than 8
\* characters (as line 206 notes) or longer than the 63 of WPA2; the sketch
\* drops the return value
softAP(ssid, passphrase, channel) ==
  IF passphrase.null
  THEN [state |-> "started", ssid |-> ssid, secured |-> FALSE, passphrase |-> "",
        channel |-> channel]
  ELSE IF Len(passphrase.chars) >= 8 /\ Len(passphrase.chars) <= 63
       THEN [state |-> "started", ssid |-> ssid, secured |-> TRUE,
             passphrase |-> passphrase.chars, channel |-> channel]
       ELSE [NoAP EXCEPT !.state = "refused"]

\* void startAP(); String(id & 0xFFFF, HEX) is kept as the number it prints
startAP(id) ==
  \E n \in strlen(password) :
    ap' = IF n.fault THEN [NoAP EXCEPT !.state = "fault"]
          ELSE IF n.len >= 8
               THEN softAP(<<ap_ssid_prefix, id % Half>>, password, ap_channel)
               ELSE softAP(<<ap_ssid_prefix, id % Half>>, NULL, ap_channel)

\* void setup(): display.begin() succeeds or fails, then the access point
\* and the web server are started
setup ==
  /\ pc = "setup"
  /\ \E ok \in BOOLEAN :
       /\ displayBegun' = ok
       /\ frame' = IF ok THEN [kind |-> "boot", lines |-> <<"AQ Monitor booting...">>]
                   ELSE NoFrame
  /\ \E id \in ChipIds : startAP(id)
  /\ pc' = IF ap'.state = "fault" THEN "fault" ELSE "handleClient"
  /\ UNCHANGED <<iter, millis, now, locals, lastSensorMillis, lastOLEDMillis, store,
                 pending, response, history, clock, snap, direct>>

\* ======================= HTTP service ===================================
\* what a reader of the state sees (history: recorded for comparison)
snapshot == [n |-> IF snap.n = 0 THEN 1 ELSE 2, temperature |-> lastTemp,
             humidity |-> lastHum, gasRaw |-> lastMQRaw, gasIndex |-> lastGasIndex]

Read == snap' = snapshot

\* variant: the isnan test dropped, NAN printed as String(NAN, 2) prints it
JsonNumber_NoNull(x) == IF isnan(x) THEN "nan" ELSE FString(x, 2)

\* isnan(x) ? String("null") : String(x, 2)
JsonNumber(x) == IF isnan(x) THEN "null" ELSE FString(x, 2)

\* isnan(x) ? "N/A" : String(x, 1) + unit
HtmlNumber(x, unit) == IF isnan(x) THEN "N/A" ELSE FString(x, 1) \o unit

\* void handleRoot(): the values put into the page (the degree sign of the
\* source is written "deg")
handleRoot ==
  /\ response' = [route |-> "/", code |-> 200, type |-> "text/html",
                  body |-> [temperature |-> HtmlNumber(lastTemp, " degC"),
                            humidity |-> HtmlNumber(lastHum, " %"),
                            mq_raw |-> ToString(lastMQRaw),
                            aq_index |-> FString(lastGasIndex, 0)]]
  /\ Read
  /\ UNCHANGED <<store, lastSensorMillis, lastOLEDMillis>>

\* variant: a handler that consumes the readings it reports
handleData_Consume ==
  /\ response' = [route |-> "/data", code |-> 200, type |-> "application/json",
                  body |-> [temperature |-> JsonNumber(lastTemp),
                            humidity |-> JsonNumber(lastHum),
                            mq_raw |-> ToString(lastMQRaw),
                            aq_index |-> FString(lastGasIndex, 2),
                            time_ms |-> millis]]
  /\ Read
  /\ lastTemp' = NAN /\ lastHum' = NAN
  /\ UNCHANGED <<lastMQRaw, lastGasIndex, lastSensorMillis, lastOLEDMillis>>

\* void handleData(): the members of the JSON object
handleData ==
  /\ response' = [route |-> "/data", code |-> 200, type |-> "application/json",
                  body |-> [temperature |-> JsonNumber(lastTemp),
                            humidity |-> JsonNumber(lastHum),
                            mq_raw |-> ToString(lastMQRaw),
                            aq_index |-> FString(lastGasIndex, 2),
                            time_ms |-> millis]]
  /\ Read
  /\ UNCHANGED <<store, lastSensorMillis, lastOLEDMillis>>

\* a client sends a request.  Connections are accepted at any time, and the
\* sketch looks at them in server.handleClient() only, so an arrival is
\* taken just before a call of it.
ClientRequest ==
  /\ pc = "handleClient" /\ iter < MaxIter
  /\ Len(pending) < MaxPending
  /\ \E r \in Routes : pending' = Append(pending, r)
  /\ UNCHANGED <<pc, iter, millis, now, locals, lastSensorMillis, lastOLEDMillis,
                 store, displayBegun, frame, ap, response, history, clock, snap,
                 direct>>

\* ======================= loop() =========================================
\* line 106, server.handleClient(): one waiting request is dispatched
handleClientFrame ==
  /\ pc = "handleClient" /\ iter < MaxIter
  /\ iter' = iter + 1
  /\ UNCHANGED <<millis, now, locals, displayBegun, frame, ap, history, clock, direct>>

loop_handleClient_root ==
  /\ pending # <<>> /\ Head(pending) = "/"
  /\ pending' = Tail(pending)
  /\ handleRoot
  /\ handleClientFrame
  /\ pc' = "sent"

loop_handleClient_data ==
  /\ pending # <<>> /\ Head(pending) = "/data"
  /\ pending' = Tail(pending)
  /\ handleData
  /\ handleClientFrame
  /\ pc' = "sent"

\* variant: an iteration may pass over the waiting requests
loop_handleClient_idle_PassOver ==
  /\ handleClientFrame
  /\ pc' = "sensor"
  /\ UNCHANGED <<pending, response, snap, store, lastSensorMillis, lastOLEDMillis>>

loop_handleClient_idle ==
  /\ pending = <<>>
  /\ handleClientFrame
  /\ pc' = "sensor"
  /\ UNCHANGED <<pending, response, snap, store, lastSensorMillis, lastOLEDMillis>>

\* the client reads the response server.send() wrote to its connection;
\* nothing the sketch does afterwards can change what was sent
ClientReceive ==
  /\ pc = "sent"
  /\ response' = NoResponse
  /\ pc' = "sensor"
  /\ UNCHANGED <<iter, millis, now, locals, lastSensorMillis, lastOLEDMillis, store,
                 displayBegun, frame, ap, pending, history, clock, snap, direct>>

\* line 108, now = millis(), d ms after the previous reading of the counter
\* (and the history of the time that passed)
ReadMillis(d) ==
  /\ millis' = Add32(millis, d) /\ now' = millis'
  /\ sinceOLED' = AddWide(sinceOLED, d)
  /\ gapsOK' = (gapsOK /\ Le32(d, MaxGap))

\* variant: the due time compared with now, now >= lastSensorMillis + interval
SensorDue_Absolute(n) == Le32(Add32(lastSensorMillis, U32(SENSOR_INTERVAL)), n)

\* variant: a first sample as soon as loop() runs
SensorDue_OrFirst(n) ==
  lastSensorMillis = Zero32 \/ Ge32(Sub32(n, lastSensorMillis), SENSOR_INTERVAL)

\* variant: > in place of >=
SensorDue_Strict(n) ==
  LET el == Sub32(n, lastSensorMillis)
  IN  el.hi > 0 \/ el.lo > SENSOR_INTERVAL

\* line 109: now - lastSensorMillis >= SENSOR_INTERVAL
SensorDue(n) == Ge32(Sub32(n, lastSensorMillis), SENSOR_INTERVAL)

\* float readMQ() and the (int) cast of line 114
readMQ(a) == FFromInt(a)

\* variant: the isnan tests of lines 117-118 dropped
Sample_Overwrite(n, tv, hv, mqv) ==
  /\ lastSensorMillis' = n
  /\ lastTemp' = tv
  /\ lastHum' = hv
  /\ lastMQRaw' = mqv
  /\ lastGasIndex' = computeGasIndex(mqv)

\* variant: the index computed from the previous raw value
Sample_StaleIndex(n, tv, hv, mqv) ==
  /\ lastSensorMillis' = n
  /\ lastTemp' = IF ~isnan(tv) THEN tv ELSE lastTemp
  /\ lastHum' = IF ~isnan(hv) THEN hv ELSE lastHum
  /\ lastGasIndex' = computeGasIndex(lastMQRaw)
  /\ lastMQRaw' = mqv

\* variant: a failed DHT read abandons the tick, to be retried at once
Sample_RetryOnError(n, tv, hv, mqv) ==
  IF isnan(tv) \/ isnan(hv)
  THEN UNCHANGED <<lastSensorMillis, store>>
  ELSE /\ lastSensorMillis' = n
       /\ lastTemp' = tv
       /\ lastHum' = hv
       /\ lastMQRaw' = mqv
       /\ lastGasIndex' = computeGasIndex(mqv)

\* lines 110-120 with the readings t, h, mq
Sample(n, tv, hv, mqv) ==
  /\ lastSensorMillis' = n
  /\ lastTemp' = IF ~isnan(tv) THEN tv ELSE lastTemp
  /\ lastHum' = IF ~isnan(hv) THEN hv ELSE lastHum
  /\ lastMQRaw' = mqv
  /\ lastGasIndex' = computeGasIndex(mqv)

\* variant: the stamp of line 110 moved out of the if
NoSample_Stamp == lastSensorMillis' = now' /\ UNCHANGED <<store, locals>>

\* the gate of line 109 closed: nothing of lines 110-122 runs
NoSample == UNCHANGED <<lastSensorMillis, store, locals>>

\* lines 108-123, the gate open, the counter read d in D ms after the
\* previous reading
sensor_fire(D) ==
  /\ pc = "sensor"
  /\ \E d \in D :
       /\ ReadMillis(d)
       /\ SensorDue(now')
       /\ lastGap' = AddWide(sinceSample, d)
  /\ \E tv \in TempReadings, hv \in HumReadings, a \in AnalogReadings :
       /\ t' = tv /\ h' = hv /\ mq' = FToInt(readMQ(a))
       /\ Sample(now', t', h', mq')
       /\ histTemp' = IF isnan(tv) THEN histTemp ELSE tv
       /\ histHum' = IF isnan(hv) THEN histHum ELSE hv
  /\ samples' = samples + 1
  /\ sinceSample' = Zero32
  /\ snap' = NoSnap
  /\ pc' = "oled"
  /\ UNCHANGED <<iter, lastOLEDMillis, displayBegun, frame, ap, pending, response,
                 direct>>

loop_sensor_fire == sensor_fire(Deltas)

\* lines 108-109, the gate closed, the counter read d in D ms after the
\* previous reading
sensor_skip(D) ==
  /\ pc = "sensor"
  /\ \E d \in D :
       /\ ReadMillis(d)
       /\ ~SensorDue(now')
       /\ sinceSample' = AddWide(sinceSample, d)
  /\ NoSample
  /\ pc' = "oled"
  /\ UNCHANGED <<iter, lastOLEDMillis, displayBegun, frame, ap, pending, response,
                 samples, lastGap, histTemp, histHum, snap, direct>>

loop_sensor_skip == sensor_skip(Deltas)

\* variant: the display interval measured from the last sensor sample
OLEDDue_SinceSample(n) == Ge32(Sub32(n, lastSensorMillis), OLED_UPDATE_INTERVAL)

\* line 125: now - lastOLEDMillis >= OLED_UPDATE_INTERVAL
OLEDDue(n) == Ge32(Sub32(n, lastOLEDMillis), OLED_UPDATE_INTERVAL)

\* lines 129-136: the four lines printed and flushed
render ==
  /\ frame' = [kind |-> "data",
               lines |-> << "Temp: " \o Printf(lastTemp, 1) \o " C",
                            "Hum:  " \o Printf(lastHum, 1) \o " %",
                            "MQ:   " \o ToString(lastMQRaw),
                            "AQI~: " \o Printf(lastGasIndex, 0) >>]
  /\ Read

\* lines 125-138, the gate open
loop_oled_fire ==
  /\ pc = "oled"
  /\ OLEDDue(now)
  /\ lastOLEDMillis' = now
  /\ IF display_width > 0 THEN render ELSE UNCHANGED <<frame, snap>>
  /\ pc' = "handleClient"
  /\ sinceOLED' = Zero32
  /\ UNCHANGED <<iter, millis, now, locals, lastSensorMillis, store, displayBegun,
                 ap, pending, response, history, gapsOK, direct>>

\* lines 125-129 after a failed display.begin(): the library has no frame
\* buffer, display.clearDisplay() writes through the null pointer, which is
\* undefined; the ESP8266 faults on the write to address 0 and resets (the
\* other outcome, the calls going through, is in loop_oled_fire)
loop_oled_fault ==
  /\ pc = "oled"
  /\ OLEDDue(now)
  /\ display_width > 0 /\ ~displayBegun
  /\ lastOLEDMillis' = now
  /\ pc' = "fault"
  /\ sinceOLED' = Zero32
  /\ UNCHANGED <<iter, millis, now, locals, lastSensorMillis, store, displayBegun,
                 frame, ap, pending, response, history, gapsOK, snap, direct>>

\* line 125, the gate closed
loop_oled_skip ==
  /\ pc = "oled"
  /\ ~OLEDDue(now)
  /\ pc' = "handleClient"
  /\ UNCHANGED <<iter, millis, now, locals, lastSensorMillis, lastOLEDMillis, store,
                 displayBegun, frame, ap, pending, response, history, clock, snap,
                 direct>>

Next ==
  \/ setup
  \/ ClientRequest
  \/ loop_handleClient_root
  \/ loop_handleClient_data
  \/ loop_handleClient_idle
  \/ ClientReceive
  \/ loop_sensor_fire
  \/ loop_sensor_skip
  \/ loop_oled_fire
  \/ loop_oled_fault
  \/ loop_oled_skip

Spec == Init /\ [][Next]_vars

\* ======================= across resets ==================================
\* the reset after a fault: the sketch starts again, its globals as at boot
\* (nothing of the state is kept), the build the same
reboot ==
  /\ pc = "fault"
  /\ iter' = 0
  /\ millis' = Zero32 /\ now' = Zero32
  /\ t' = NAN /\ h' = NAN /\ mq' = 0
  /\ lastSensorMillis' = Zero32 /\ lastOLEDMillis' = Zero32
  /\ lastTemp' = NAN /\ lastHum' = NAN /\ lastMQRaw' = 0 /\ lastGasIndex' = FZero
  /\ displayBegun' = FALSE /\ frame' = NoFrame /\ ap' = NoAP
  /\ pending' = <<>> /\ response' = NoResponse
  /\ samples' = 0 /\ sinceSample' = Zero32 /\ lastGap' = Zero32
  /\ histTemp' = NAN /\ histHum' = NAN
  /\ sinceOLED' = Zero32 /\ gapsOK' = TRUE
  /\ snap' = NoSnap
  /\ pc' = "setup"
  /\ UNCHANGED direct

NextLive == Next \/ reboot

\* the processor does not stop: wherever the sketch is, it takes its next
\* step (in each of these positions a step of NextLive is possible: the two
\* actions of a gate are complementary, handleClient() returns with or
\* without a request); loop() is called again whenever it returns, within
\* the iterations explored, and a faulted board resets
Advance ==
  \/ pc = "setup" /\ pc' \in {"handleClient", "fault"}
  \/ pc = "handleClient" /\ iter < MaxIter /\ pc' \in {"sent", "sensor"}
  \/ pc = "sent" /\ pc' = "sensor"
  \/ pc = "sensor" /\ pc' = "oled"
  \/ pc = "oled" /\ pc' \in {"handleClient", "fault"}
  \/ pc = "fault" /\ pc' = "setup"

SpecLive == Init /\ [][NextLive]_vars /\ WF_pc(Advance)

\* ======================= computeGasIndex called directly ================
RawDomain == (0 - RawBelow)..(ADC_MAX + RawAbove)

InitIndex ==
  Boot /\ pc = "call" /\ raw \in RawDomain /\ idx = NAN /\ password = Str(ap_password)

computeGasIndex_call ==
  /\ pc = "call"
  /\ idx' = computeGasIndex(raw)
  /\ pc' = "returned"
  /\ UNCHANGED <<iter, millis, now, locals, lastSensorMillis, lastOLEDMillis, store,
                 displayBegun, frame, ap, pending, response, history, clock, snap,
                 raw, password>>

NextIndex == computeGasIndex_call

SpecIndex == InitIndex /\ [][NextIndex]_vars

\* ======================= the counter's wrap ==============================
\* loop() with no client connecting and steps of millis() that take the
\* counter to its wrap and over it: a stall of 2^32 - 2500 ms, then 2000
\* (a sample 500 ms before the wrap) or 4500 (the wrap between two
\* samples), then 999 (over the wrap before either interval has passed);
\* and a stall of 2^32 - 999 ms, longer than MaxGap
NearFull == Sub32(Zero32, U32(999))
WrapDeltas == {U32(999), U32(2000), U32(4500), BigStep, NearFull}

wrap_sensor_fire == sensor_fire(WrapDeltas)
wrap_sensor_skip == sensor_skip(WrapDeltas)

NextWrap ==
  \/ setup
  \/ loop_handleClient_idle
  \/ wrap_sensor_fire
  \/ wrap_sensor_skip
  \/ loop_oled_fire
  \/ loop_oled_fault
  \/ loop_oled_skip

SpecWrap == Init /\ [][NextWrap]_vars

\* ======================= the sensor tick, statement by statement ========
\* loop() with lines 110-120 taken one statement at a time; the position
\* inside the tick is pc = "line110" .. "line120"
TickDeltas == {U32(999), U32(4500)}

\* variant: the if body left after line 119
TickNext_EarlyExit(p) ==
  CASE p = "line110" -> "line112"
    [] p = "line112" -> "line117"
    [] p = "line117" -> "line118"
    [] p = "line118" -> "line119"
    [] p = "line119" -> "oled"
    [] p = "line120" -> "oled"

\* the statement that runs after the one at p: lines 110-120 are straight
\* line code, nothing else of the sketch runs in between
TickNext(p) ==
  CASE p = "line110" -> "line112"
    [] p = "line112" -> "line117"
    [] p = "line117" -> "line118"
    [] p = "line118" -> "line119"
    [] p = "line119" -> "line120"
    [] p = "line120" -> "oled"

tickOuter == <<iter, millis, now, lastOLEDMillis, displayBegun, frame, ap, pending,
               response, sinceSample, lastGap, clock, snap, direct>>

\* lines 108-109, the gate open
tick_gate ==
  /\ pc = "sensor"
  /\ \E d \in TickDeltas :
       /\ ReadMillis(d)
       /\ SensorDue(now')
       /\ lastGap' = AddWide(sinceSample, d)
  /\ sinceSample' = Zero32
  /\ snap' = NoSnap
  /\ pc' = "line110"
  /\ UNCHANGED <<iter, locals, lastSensorMillis, lastOLEDMillis, store, displayBegun,
                 frame, ap, pending, response, samples, histTemp, histHum, direct>>

\* line 110: lastSensorMillis = now
tick_110 ==
  /\ pc = "line110"
  /\ lastSensorMillis' = now
  /\ pc' = TickNext(pc)
  /\ UNCHANGED <<tickOuter, locals, store, samples, histTemp, histHum>>

\* lines 112-114: the three reads
tick_112 ==
  /\ pc = "line112"
  /\ \E tv \in TempReadings, hv \in HumReadings, a \in AnalogReadings :
       t' = tv /\ h' = hv /\ mq' = FToInt(readMQ(a))
  /\ pc' = TickNext(pc)
  /\ UNCHANGED <<tickOuter, lastSensorMillis, store, samples, histTemp, histHum>>

\* line 117: if (!isnan(t)) lastTemp = t
tick_117 ==
  /\ pc = "line117"
  /\ lastTemp' = IF ~isnan(t) THEN t ELSE lastTemp
  /\ pc' = TickNext(pc)
  /\ UNCHANGED <<tickOuter, locals, lastSensorMillis, lastHum, lastMQRaw, lastGasIndex,
                 samples, histTemp, histHum>>

\* line 118: if (!isnan(h)) lastHum = h
tick_118 ==
  /\ pc = "line118"
  /\ lastHum' = IF ~isnan(h) THEN h ELSE lastHum
  /\ pc' = TickNext(pc)
  /\ UNCHANGED <<tickOuter, locals, lastSensorMillis, lastTemp, lastMQRaw, lastGasIndex,
                 samples, histTemp, histHum>>

\* line 119: lastMQRaw = mq
tick_119 ==
  /\ pc = "line119"
  /\ lastMQRaw' = mq
  /\ pc' = TickNext(pc)
  /\ UNCHANGED <<tickOuter, locals, lastSensorMillis, lastTemp, lastHum, lastGasIndex,
                 samples, histTemp, histHum>>

\* line 120: lastGasIndex = computeGasIndex(mq); the tick is complete
tick_120 ==
  /\ pc = "line120"
  /\ lastGasIndex' = computeGasIndex(mq)
  /\ samples' = samples + 1
  /\ histTemp' = IF isnan(t) THEN histTemp ELSE t
  /\ histHum' = IF isnan(h) THEN histHum ELSE h
  /\ pc' = TickNext(pc)
  /\ UNCHANGED <<tickOuter, locals, lastSensorMillis, lastTemp, lastHum, lastMQRaw>>

tick_skip == sensor_skip(TickDeltas)

NextTick ==
  \/ setup
  \/ ClientRequest
  \/ loop_handleClient_root
  \/ loop_handleClient_data
  \/ loop_handleClient_idle
  \/ ClientReceive
  \/ tick_gate
  \/ tick_110
  \/ tick_112
  \/ tick_117
  \/ tick_118
  \/ tick_119
  \/ tick_120
  \/ tick_skip
  \/ loop_oled_fire
  \/ loop_oled_fault
  \/ loop_oled_skip

SpecTick == Init /\ [][NextTick]_vars

\* ======================= startAP() called with any password =============
InitAP == Boot /\ pc = "startAP" /\ raw = 0 /\ idx = NAN /\ password \in Passwords

startAP_call ==
  /\ pc = "startAP"
  /\ \E id \in ChipIds : startAP(id)
  /\ pc' = IF ap'.state = "fault" THEN "fault" ELSE "apDone"
  /\ UNCHANGED <<iter, millis, now, locals, lastSensorMillis, lastOLEDMillis, store,
                 displayBegun, frame, pending, response, history, clock, snap, direct>>

NextAP == startAP_call

SpecAP == InitAP /\ [][NextAP]_vars

\* ======================= properties =====================================
IsSample == samples' = samples + 1

\* C1: after any sequence of sensor ticks the stored temperature is the most
\* recent valid temperature reading (NAN only while there has been none),
\* and so is the stored humidity, each on its own: a tick with an invalid
\* temperature and a valid humidity keeps the temperature and stores the
\* humidity, and the other way round; a stored number never turns into NAN.
C1_LastValidRetained ==
  /\ [](lastTemp = histTemp /\ lastHum = histHum)
  /\ [][/\ (IsSample /\ isnan(t')) => lastTemp' = lastTemp
        /\ (IsSample /\ ~isnan(t')) => lastTemp' = t'
        /\ (IsSample /\ isnan(h')) => lastHum' = lastHum
        /\ (IsSample /\ ~isnan(h')) => lastHum' = h'
        /\ ~isnan(lastTemp) => ~isnan(lastTemp')
        /\ ~isnan(lastHum) => ~isnan(lastHum')]_vars

\* a second tick read no temperature but a humidity: the temperature of an
\* earlier tick is still stored, the humidity is the new one
C1_Witness ==
  /\ pc = "oled" /\ samples >= 2
  /\ isnan(t) /\ ~isnan(h)
  /\ ~isnan(lastTemp) /\ lastHum = h

\* C2: the Sensor Reader is invoked at most once per iteration and only in
\* the sensor step; it is not invoked when less than SENSOR_INTERVAL ms
\* have passed since the last sample (or boot), it is invoked exactly once
\* when SENSOR_INTERVAL ms or more have passed, and two consecutive samples
\* are at least SENSOR_INTERVAL ms apart.
C2_OncePerInterval ==
  /\ [](samples >= 2 => GeWide(lastGap, SENSOR_INTERVAL))
  /\ [][/\ pc # "sensor" => samples' = samples
        /\ pc = "sensor" =>
             /\ samples' = samples \/ IsSample
             /\ samples' = samples => ~GeWide(sinceSample', SENSOR_INTERVAL)
             /\ IsSample => GeWide(lastGap', SENSOR_INTERVAL)]_vars

\* two samples exactly SENSOR_INTERVAL ms apart
C2_Witness == samples = 2 /\ lastGap = U32(SENSOR_INTERVAL)

\* C3: in every state, the boot state included, the stored gasIndex is
\* computeGasIndex of the stored gasRaw.
C3_IndexOfRaw == lastGasIndex = computeGasIndex(lastMQRaw)

\* after a tick with a failed temperature read, a request and a repaint
C3_Witness ==
  /\ samples >= 1 /\ lastMQRaw = 512 /\ isnan(t)
  /\ frame.kind = "data" /\ pc = "sent"

\* C4: the stored temperature, humidity, gasRaw, gasIndex and the
\* last-sample timestamp change only in a sensor step whose gate is open;
\* requests, repaints and iterations with the gate closed leave them alone.
C4_OnlyTickWrites ==
  [][(store' # store \/ lastSensorMillis' # lastSensorMillis)
       => (pc = "sensor" /\ SensorDue(now'))]_vars

\* GET /data served after a sample
C4_Witness ==
  /\ pc = "sent" /\ response.route = "/data"
  /\ samples >= 1 /\ ~isnan(lastTemp)

IsNumberText(str) == str \notin {"", "null", "N/A", "nan"}

\* C5: whenever a response has been sent, /data reports the temperature as
\* null and / as N/A if no valid temperature was read since boot, and as a
\* number once one was read, however many invalid reads followed; the same
\* for the humidity on its own.
C5_MissingUntilFirstValid ==
  pc = "sent" =>
    LET b == response.body
        missing == IF response.route = "/data" THEN "null" ELSE "N/A"
    IN  /\ response.route \in Routes
        /\ IF isnan(histTemp) THEN b.temperature = missing
           ELSE IsNumberText(b.temperature)
        /\ IF isnan(histHum) THEN b.humidity = missing
           ELSE IsNumberText(b.humidity)

\* /data served after a valid temperature read was followed by an invalid
\* one, with no valid humidity so far
C5_Witness ==
  /\ pc = "sent" /\ response.route = "/data"
  /\ samples >= 2 /\ isnan(t) /\ ~isnan(histTemp) /\ isnan(histHum)
  /\ response.body.temperature = "21.50" /\ response.body.humidity = "null"

\* C6: for raw in 0..ADC_MAX, computeGasIndex(raw) is in [0, 300] and not
\* above computeGasIndex(r2) for any r2 >= raw in that range;
\* computeGasIndex(0) = 0 and computeGasIndex(ADC_MAX) = 300.
C6_RangeAndMonotone ==
  (pc = "returned" /\ raw \in 0..ADC_MAX) =>
    /\ FLe(FZero, idx) /\ FLe(idx, F300)
    /\ \A r2 \in raw..ADC_MAX : FLe(idx, computeGasIndex(r2))
    /\ raw = 0 => idx = FZero
    /\ raw = ADC_MAX => idx = F300

C6_Witness == pc = "returned" /\ raw = ADC_MAX /\ idx = F300

\* C7: for every raw, computeGasIndex(raw) is raw / 1023 * 300 clamped to
\* [0, 500]: exactly 0 for a negative raw, exactly 500 when raw * 300 / 1023
\* is above 500, and otherwise raw * 300 / 1023 (compared to two decimals).
C7_ClampedLinear ==
  pc = "returned" =>
    IF raw < 0 THEN idx = FZero
    ELSE IF raw * 300 > 500 * ADC_MAX THEN idx = F500
    ELSE /\ FLe(idx, F500)
         /\ (Scaled(idx, 2) - 1) * ADC_MAX <= raw * 30000
         /\ raw * 30000 <= (Scaled(idx, 2) + 1) * ADC_MAX

C7_Witness == pc = "returned" /\ raw = 2000 /\ idx = F500

\* C8: a tick with an invalid temperature or humidity read still stamps the
\* last-sample time with this iteration's time and overwrites gasRaw and
\* gasIndex from its analog sample; the sample after it is taken by the
\* first sensor step that finds SENSOR_INTERVAL ms or more elapsed, and by
\* none before.
C8_InvalidTickScheduledAlike ==
  [][/\ (IsSample /\ (isnan(t') \/ isnan(h'))) =>
          /\ lastSensorMillis' = now'
          /\ lastMQRaw' = mq'
          /\ lastGasIndex' = computeGasIndex(mq')
     /\ (IsSample /\ samples >= 1 /\ (isnan(t) \/ isnan(h))) =>
          GeWide(lastGap', SENSOR_INTERVAL)
     /\ (pc = "sensor" /\ samples >= 1 /\ (isnan(t) \/ isnan(h))
           /\ samples' = samples) => ~GeWide(sinceSample', SENSOR_INTERVAL)]_vars

\* 1000 ms after a tick whose temperature read failed: stamped, gas stored,
\* and the sensor step of this iteration took no sample
C8_Witness ==
  /\ pc = "oled" /\ samples >= 1 /\ isnan(t)
  /\ sinceSample = U32(1000)
  /\ lastSensorMillis = Sub32(now, U32(1000))
  /\ lastMQRaw = mq /\ lastGasIndex = computeGasIndex(mq)

\* C9: two readers (GET /data, GET /, a repaint) with no sensor tick between
\* them see the same temperature, humidity, gasRaw and gasIndex.
C9_SnapshotsAgree ==
  [][(snap.n >= 1 /\ snap'.n >= 1) =>
       /\ snap'.temperature = snap.temperature
       /\ snap'.humidity = snap.humidity
       /\ snap'.gasRaw = snap.gasRaw
       /\ snap'.gasIndex = snap.gasIndex]_vars

\* a repaint after a request, after a sample, no tick between the two
C9_Witness ==
  /\ snap.n = 2 /\ samples >= 1 /\ ~isnan(snap.temperature)
  /\ pc = "handleClient" /\ frame.kind = "data"

\* C10: if display.begin() failed in setup(), no loop iteration issues an
\* operation to the display (nothing is ever flushed to it).
C10_FailedDisplayUntouched ==
  (pc # "setup" /\ ~displayBegun) => frame.kind = "none"

\* C11: startAP always starts an access point and never rejects its
\* configuration: a password of fewer than 8 characters gives an open
\* network, one of 8 or more characters a network protected with that
\* password, and the SSID and the channel are the same in both cases.
C11_AlwaysStartsAP ==
  pc \in {"apDone", "fault"} =>
    /\ ap.state = "started"
    /\ \E id \in ChipIds : ap.ssid = <<ap_ssid_prefix, id % Half>>
    /\ ap.channel = ap_channel
    /\ Len(password.chars) < 8 => ~ap.secured
    /\ Len(password.chars) >= 8 => ap.secured /\ ap.passphrase = password.chars

\* C12: no HTTP response and no display render observes a partially applied
\* sensor tick: whatever a reader sees is the state a completed tick (or
\* boot) left, the most recent valid temperature and humidity, the raw value
\* of the last completed tick and the index computed from that raw value,
\* never a new gasRaw with the previous gasIndex.
C12_ReadersSeeWholeTicks ==
  snap.n >= 1 =>
    /\ pc \notin {"line110", "line112", "line117", "line118", "line119", "line120"}
    /\ snap.temperature = histTemp
    /\ snap.humidity = histHum
    /\ snap.gasRaw = mq
    /\ snap.gasIndex = computeGasIndex(snap.gasRaw)

C12_Witness ==
  /\ samples = 2 /\ snap.n = 2 /\ pc = "sent"
  /\ snap.gasRaw = ADC_MAX /\ snap.gasIndex = F300

\* C13: the sensor timer and the display timer are independent.  The sensor
\* step leaves lastOLEDMillis unchanged and fires exactly when now minus
\* lastSensorMillis has reached 2000; the display step leaves
\* lastSensorMillis unchanged and fires exactly when now minus lastOLEDMillis
\* has reached 1000, whether or not the sensor fired in the same iteration.
C13_TimersIndependent ==
  [][ /\ pc = "sensor" =>
           /\ lastOLEDMillis' = lastOLEDMillis
           /\ IsSample <=> Ge32(Sub32(now', lastSensorMillis), SENSOR_INTERVAL)
           /\ lastSensorMillis' = IF IsSample THEN now' ELSE lastSensorMillis
      /\ pc = "oled" =>
           /\ lastSensorMillis' = lastSensorMillis
           /\ lastOLEDMillis' =
                 IF Ge32(Sub32(now, lastOLEDMillis), OLED_UPDATE_INTERVAL)
                 THEN now ELSE lastOLEDMillis
           /\ frame' # frame => Ge32(Sub32(now, lastOLEDMillis), OLED_UPDATE_INTERVAL)
    ]_vars

\* the display fired alone in the second iteration (at 1999), the sensor
\* alone in the third (at 2998)
C13_Witness ==
  /\ pc = "handleClient" /\ iter = 3 /\ samples = 1
  /\ lastSensorMillis = U32(2998) /\ lastOLEDMillis = U32(1999)

C15_SamplingRecurs ==
  []<>(\/ pc = "oled" /\ samples >= 1 /\ sinceSample = Zero32
       \/ iter = MaxIter)

\* real ms since the last sample (or boot) at the reading of millis() this
\* step makes
RealSinceSample == IF IsSample THEN lastGap' ELSE sinceSample'

\* C16 (as stated): with consecutive iterations less than 2^32 ms apart,
\* the gates stay correct across the wrap of millis(): the sensor gate
\* fires in an iteration exactly when 2000 ms or more of real time have
\* passed since the last sample, the display gate exactly when 1000 ms or
\* more have passed since the last display update.
C16_GatesFollowRealTime ==
  [][ /\ pc = "sensor" => (IsSample <=> GeWide(RealSinceSample, SENSOR_INTERVAL))
      /\ pc = "oled" =>
           (sinceOLED' = Zero32 <=> GeWide(sinceOLED, OLED_UPDATE_INTERVAL))
    ]_vars

\* C16 (amended): the same, with consecutive iterations at most
\* 2^32 - 2000 ms apart.
C16_GatesFollowRealTimeWithinMaxGap ==
  [][ /\ pc = "sensor" /\ gapsOK' =>
           (IsSample <=> GeWide(RealSinceSample, SENSOR_INTERVAL))
      /\ pc = "oled" /\ gapsOK =>
           (sinceOLED' = Zero32 <=> GeWide(sinceOLED, OLED_UPDATE_INTERVAL))
    ]_vars

\* a sample at 2^32 - 500, then the third iteration 999 ms later, over the
\* wrap at millis() = 499: no sample, no display update
C16_Witness ==
  /\ pc = "handleClient" /\ iter = 3 /\ gapsOK /\ samples = 2
  /\ now = U32(499)
  /\ lastSensorMillis = Sub32(Zero32, U32(500))
  /\ lastOLEDMillis = Sub32(Zero32, U32(500))
  /\ sinceSample = U32(999) /\ sinceOLED = U32(999)

\* C17: lastSensorMillis starts at 0, so the first sample is taken in an
\* iteration that reads millis() >= 2000, not in the first 2000 ms after
\* boot.  Until then the stored values are those of boot and every response
\* reports them: temperature and humidity missing (null, N/A), mq_raw 0,
\* aq_index 0.00 (0 on the page).  The display, due from 1000 ms, can be
\* repainted with these values before any sample.
C17_BootStateUntilFirstSample ==
  /\ [](samples = 0 =>
          /\ lastSensorMillis = Zero32
          /\ isnan(lastTemp) /\ isnan(lastHum)
          /\ lastMQRaw = 0 /\ lastGasIndex = FZero
          /\ pc = "sent" =>
               /\ response.body.mq_raw = "0"
               /\ IF response.route = "/data"
                  THEN /\ response.body.temperature = "null"
                       /\ response.body.humidity = "null"
                       /\ response.body.aq_index = "0.00"
                  ELSE /\ response.body.temperature = "N/A"
                       /\ response.body.humidity = "N/A"
                       /\ response.body.aq_index = "0"
          /\ frame.kind = "data" =>
               /\ GeWide(sinceSample, OLED_UPDATE_INTERVAL)
               /\ frame.lines = <<"Temp: nan C", "Hum:  nan %", "MQ:   0", "AQI~: 0">>)
  /\ [][(samples = 0 /\ IsSample) =>
          /\ Ge32(now', SENSOR_INTERVAL)
          /\ GeWide(lastGap', SENSOR_INTERVAL)]_vars

\* 1999 ms after boot: the display was repainted, GET /data is answered,
\* no sample yet
C17_Witness ==
  /\ samples = 0 /\ pc = "sent" /\ response.route = "/data"
  /\ response.body.time_ms = U32(1999) /\ response.body.temperature = "null"
  /\ frame.kind = "data" /\ lastOLEDMillis = U32(1999)

====
